---- MODULE Spec2Model ----
(***************************************************************************)
(* A model of the two commands of the hw-command plugin (src/main.ts):     *)
(*   - SortTimestampedListCommand: section location, timestamp parsing,    *)
(*     stable ordering and in-place reconstruction of a document section;  *)
(*   - RedditPostParserCommand: per-element validation, canonical URL and  *)
(*     the YYYYMMDDHHmm code of a post.                                    *)
(* selectNote and selectSection are modelled as the promise their modal's  *)
(* callbacks and zero-delay timer resolve.                                 *)
(*                                                                         *)
(* Text is modelled as a sequence of one-character strings, so the regular *)
(* expressions, split/join, trim and padStart of the source are computed   *)
(* character by character.  An instant (Date.getTime()) is counted in      *)
(* minutes since the epoch instead of milliseconds: every Date the source  *)
(* builds or formats is used to the minute only.  The host's local time    *)
(* zone is a fixed offset from UTC (hostOffset, in minutes); daylight      *)
(* saving transitions are not modelled.                                    *)
(***************************************************************************)
EXTENDS Integers, Sequences, FiniteSets, TLC

VARIABLES
    hostOffset,   \* host local time zone: local = UTC + hostOffset (minutes)
    file,         \* the vault's content of the selected note (text)
    pc,           \* position of the sort command
    sections,     \* options offered by the section modal
    section,      \* the chosen option [heading, line]
    lines,        \* content.split('\n') as read by sortTimestampsInSection
    startLine,    \* section range computed by sortTimestampsInSection
    endLine,
    written,      \* TRUE iff vault.modify was called by the last run
    notice,       \* last Notice shown by sortTimestampsInSection
    posts,        \* the shreddit-post elements selected by the extractor
    cursor,       \* number of elements the .each callback has been called on
    results,      \* extractRedditPosts' results array
    threw,        \* TRUE iff the .each callback raised a TypeError
    tsLine,       \* round trip: the line handed to parseTimestamp
    tsDate,       \* round trip: the Date parseTimestamp returned
    tsCode,       \* round trip: the code the YYYYMMDDHHmm formatter produced
    opened,       \* modal.open() was called, per modal
    closure,      \* per modal: the flag "resolved" and the calls made to resolve
    timers,       \* per modal: setTimeout(..., 0) callbacks not yet run
    calls         \* per modal: the items of the onChooseItem calls, the onClose calls

vars == <<hostOffset, file, pc, sections, section, lines, startLine, endLine,
          written, notice, posts, cursor, results, threw, tsLine, tsDate, tsCode,
          opened, closure, timers, calls>>

sortVars == <<file, pc, sections, section, lines, startLine, endLine, written, notice>>
extractVars == <<posts, cursor, results, threw>>
tripVars == <<tsLine, tsDate, tsCode>>
modalVars == <<opened, closure, timers, calls>>

-----------------------------------------------------------------------------
(* Characters and strings *)

Digits == <<"0", "1", "2", "3", "4", "5", "6", "7", "8", "9">>

DigitChars == {Digits[i] : i \in 1..10}

\* \s of a JavaScript regular expression (the members that can occur in a line)
WhiteSpace == {" ", "\t", "\r"}

\* what "." of a JavaScript regular expression does not match
LineTerminators == {"\n", "\r"}

NL == "\n"

DigitVal(c) ==
    CASE c = "0" -> 0 [] c = "1" -> 1 [] c = "2" -> 2 [] c = "3" -> 3 [] c = "4" -> 4
      [] c = "5" -> 5 [] c = "6" -> 6 [] c = "7" -> 7 [] c = "8" -> 8 [] c = "9" -> 9

\* number of consecutive characters of s, from index i on, that belong to set
RECURSIVE RunLen(_, _, _)
RunLen(s, i, set) ==
    IF i > Len(s) \/ i < 1 THEN 0
    ELSE IF s[i] \in set THEN 1 + RunLen(s, i + 1, set)
    ELSE 0

\* s starts with prefix p at index i
StartsAt(s, i, p) ==
    /\ i >= 1
    /\ i + Len(p) - 1 <= Len(s)
    /\ \A k \in 1..Len(p) : s[i + k - 1] = p[k]

\* String.prototype.substring(a, b), 0-based, on a string long enough
Substring(s, a, b) == SubSeq(s, a + 1, b)

\* parseInt of a string of decimal digits
RECURSIVE ParseInt(_)
ParseInt(s) ==
    IF Len(s) = 0 THEN 0
    ELSE 10 * ParseInt(SubSeq(s, 1, Len(s) - 1)) + DigitVal(s[Len(s)])

\* Number.prototype.toString() of a non-negative integer
RECURSIVE NatToString(_)
NatToString(n) ==
    IF n < 10 THEN <<Digits[n + 1]>>
    ELSE NatToString(n \div 10) \o <<Digits[(n % 10) + 1]>>

\* Number.prototype.toString() of an integer
NumToString(n) == IF n < 0 THEN <<"-">> \o NatToString(0 - n) ELSE NatToString(n)

\* String.prototype.padStart(width, '0')
RECURSIVE PadStart(_, _)
PadStart(s, width) == IF Len(s) >= width THEN s ELSE PadStart(<<"0">> \o s, width)

\* String.prototype.trim() = ''
IsBlank(s) == \A k \in 1..Len(s) : s[k] \in WhiteSpace

\* String.prototype.indexOf('\n', from i), 1-based; 0 when there is none
RECURSIVE IndexOfNL(_, _)
IndexOfNL(text, i) ==
    IF i > Len(text) THEN 0
    ELSE IF text[i] = NL THEN i
    ELSE IndexOfNL(text, i + 1)

\* String.prototype.split('\n')
RECURSIVE Split(_)
Split(text) ==
    LET n == IndexOfNL(text, 1)
    IN  IF n = 0 THEN <<text>>
        ELSE <<SubSeq(text, 1, n - 1)>> \o Split(SubSeq(text, n + 1, Len(text)))

\* Array.prototype.join('\n')
RECURSIVE Join(_)
Join(ls) ==
    IF Len(ls) = 0 THEN <<>>
    ELSE IF Len(ls) = 1 THEN ls[1]
    ELSE ls[1] \o <<NL>> \o Join(Tail(ls))

-----------------------------------------------------------------------------
(* Dates: ECMAScript's MakeDay / MakeTime / local-time fields *)

MinutesPerDay == 24 * 60

\* days from 1970-01-01 to the civil date y-m-d (m in 1..12, d any integer)
DaysFromCivil(y, m, d) ==
    LET yy  == IF m <= 2 THEN y - 1 ELSE y
        era == yy \div 400
        yoe == yy - era * 400
        mp  == IF m > 2 THEN m - 3 ELSE m + 9
        doy == (153 * mp + 2) \div 5 + d - 1
        doe == yoe * 365 + yoe \div 4 - yoe \div 100 + doy
    IN  era * 146097 + doe - 719468

\* the civil date [year, month (1..12), day] of a day number
CivilFromDays(z) ==
    LET zz  == z + 719468
        era == zz \div 146097
        doe == zz - era * 146097
        yoe == (doe - doe \div 1460 + doe \div 36524 - doe \div 146096) \div 365
        doy == doe - (365 * yoe + yoe \div 4 - yoe \div 100)
        mp  == (5 * doy + 2) \div 153
        d   == doy - (153 * mp + 2) \div 5 + 1
        m   == IF mp < 10 THEN mp + 3 ELSE mp - 9
    IN  [year |-> yoe + era * 400 + (IF m <= 2 THEN 1 ELSE 0), month |-> m, day |-> d]

\* a Date object: nan is TRUE for an Invalid Date, time is getTime() in minutes
DateOf(t) == [nan |-> FALSE, time |-> t]

InvalidDate == [nan |-> TRUE, time |-> 0]

\* the null of "Date | null"
NULL == [null |-> TRUE]

\* new Date(year, month, day, hour, minute): the fields are local time, month is
\* 0-based, out-of-range fields carry over, and a year of 0..99 means 1900 + year
NewDateLocal(year, month, day, hour, minute, offset) ==
    LET fullYear == IF year >= 0 /\ year <= 99 THEN 1900 + year ELSE year
        ym == fullYear + month \div 12
        mn == month % 12
        localTime == DaysFromCivil(ym, mn + 1, day) * MinutesPerDay + hour * 60 + minute
    IN  DateOf(localTime - offset)

\* the local-time fields of a valid Date: getFullYear(), getMonth(), getDate(),
\* getHours(), getMinutes()
LocalFields(date, offset) ==
    LET localTime == date.time + offset
        days == localTime \div MinutesPerDay
        rest == localTime % MinutesPerDay
        civil == CivilFromDays(days)
    IN  [fullYear |-> civil.year, month |-> civil.month - 1, date |-> civil.day,
         hours |-> rest \div 60, minutes |-> rest % 60]

\* a number of the formatter as text: NaN prints as "NaN"
NaNText == <<"N", "a", "N">>

\* const pad = (n: number) => n.toString().padStart(2, '0')
pad(n) == PadStart(NumToString(n), 2)

\* the YYYYMMDDHHmm formatter of extractRedditPosts: the year is not padded
formattedTime(date, offset) ==
    IF date.nan
    THEN NaNText \o PadStart(NaNText, 2) \o PadStart(NaNText, 2)
                 \o PadStart(NaNText, 2) \o PadStart(NaNText, 2)
    ELSE LET f == LocalFields(date, offset)
         IN  NumToString(f.fullYear) \o pad(f.month + 1) \o pad(f.date)
                \o pad(f.hours) \o pad(f.minutes)

-----------------------------------------------------------------------------
(* TimestampParser *)

\* The prefix /^-\s+\d{lo,hi}\s+-\s+/ with the digit run's length in lens: the
\* character classes "-", \s and \d are disjoint, so each run is maximal.
\* The result is the digit run (match[1]), or <<>> when the line does not match.
TimestampPrefix(line, lens) ==
    LET ws1 == RunLen(line, 2, WhiteSpace)
        dStart == 2 + ws1
        nd  == RunLen(line, dStart, DigitChars)
        ws2 == RunLen(line, dStart + nd, WhiteSpace)
        dash == dStart + nd + ws2
        ws3 == RunLen(line, dash + 1, WhiteSpace)
    IN  IF /\ Len(line) >= 1
           /\ line[1] = "-"
           /\ ws1 >= 1
           /\ nd \in lens
           /\ ws2 >= 1
           /\ dash <= Len(line)
           /\ line[dash] = "-"
           /\ ws3 >= 1
        THEN SubSeq(line, dStart, dStart + nd - 1)
        ELSE <<>>

\* line.match(/^-\s+(\d{8}|\d{12})\s+-\s+/)
StrictMatch(line) == TimestampPrefix(line, {8, 12})

\* line.match(/^-\s+\d{8,12}\s+-\s+/)
LooseMatches(line) == TimestampPrefix(line, 8..12) # <<>>

\* TimestampParser.parseTimestamp
parseTimestamp(line, offset) ==
    LET timestampStr == StrictMatch(line)
    IN  IF timestampStr = <<>> THEN NULL
        ELSE IF Len(timestampStr) = 8
        THEN NewDateLocal(ParseInt(Substring(timestampStr, 0, 4)),
                          ParseInt(Substring(timestampStr, 4, 6)) - 1,
                          ParseInt(Substring(timestampStr, 6, 8)), 0, 0, offset)
        ELSE IF Len(timestampStr) = 12
        THEN NewDateLocal(ParseInt(Substring(timestampStr, 0, 4)),
                          ParseInt(Substring(timestampStr, 4, 6)) - 1,
                          ParseInt(Substring(timestampStr, 6, 8)),
                          ParseInt(Substring(timestampStr, 8, 10)),
                          ParseInt(Substring(timestampStr, 10, 12)), offset)
        ELSE NULL

\* the comparator with the two null branches exchanged: null entries go last
compareEntriesNullLast(a, b) ==
    IF a.timestamp = NULL /\ b.timestamp = NULL THEN a.originalIndex - b.originalIndex
    ELSE IF a.timestamp = NULL THEN 1
    ELSE IF b.timestamp = NULL THEN -1
    ELSE b.timestamp.time - a.timestamp.time

\* the comparator of sortTimestampedEntries: negative when a goes first
compareEntries(a, b) ==
    IF a.timestamp = NULL /\ b.timestamp = NULL THEN a.originalIndex - b.originalIndex
    ELSE IF a.timestamp = NULL THEN -1
    ELSE IF b.timestamp = NULL THEN 1
    ELSE b.timestamp.time - a.timestamp.time

\* an insertion that also passes the elements that compare equal: not stable
RECURSIVE InsertSortedUnstable(_, _)
InsertSortedUnstable(s, e) ==
    IF Len(s) = 0 THEN <<e>>
    ELSE IF compareEntries(s[Len(s)], e) >= 0
    THEN InsertSortedUnstable(SubSeq(s, 1, Len(s) - 1), e) \o <<s[Len(s)]>>
    ELSE s \o <<e>>

\* insert e into the sorted sequence s after every element that does not
\* compare greater than it
RECURSIVE InsertSorted(_, _)
InsertSorted(s, e) ==
    IF Len(s) = 0 THEN <<e>>
    ELSE IF compareEntries(s[Len(s)], e) > 0
    THEN InsertSorted(SubSeq(s, 1, Len(s) - 1), e) \o <<s[Len(s)]>>
    ELSE s \o <<e>>

\* Array.prototype.sort with the comparator: a stable sort (ES2019)
RECURSIVE sortTimestampedEntries(_)
sortTimestampedEntries(entries) ==
    IF Len(entries) = 0 THEN <<>>
    ELSE InsertSorted(sortTimestampedEntries(SubSeq(entries, 1, Len(entries) - 1)),
                      entries[Len(entries)])

-----------------------------------------------------------------------------
(* The lines documents are built from *)

\* "- 20240101 - A": an 8-digit row
RowA == <<"-", " ", "2", "0", "2", "4", "0", "1", "0", "1", " ", "-", " ", "A">>

\* "- 20240601 - B": a later 8-digit row
RowB == <<"-", " ", "2", "0", "2", "4", "0", "6", "0", "1", " ", "-", " ", "B">>

\* "- 202401010000 - C": the 12-digit row for midnight of RowA's date
RowC == <<"-", " ", "2", "0", "2", "4", "0", "1", "0", "1", "0", "0", "0", "0", " ", "-", " ", "C">>

\* "- 202401011 - D": 9 digits: matches the loose pattern only
RowD9 == <<"-", " ", "2", "0", "2", "4", "0", "1", "0", "1", "1", " ", "-", " ", "D">>

\* "- 20240101123 - E": 11 digits: matches the loose pattern only
RowE11 == <<"-", " ", "2", "0", "2", "4", "0", "1", "0", "1", "1", "2", "3", " ", "-", " ", "E">>

\* "note": ordinary content
NoteLine == <<"n", "o", "t", "e">>

\* "": an empty line
EmptyLine == <<>>

\* " ": a whitespace-only line
SpaceLine == <<" ">>

\* "# H": a level-1 heading
HeadingH == <<"#", " ", "H">>

\* "## S": a level-2 heading
HeadingS == <<"#", "#", " ", "S">>

\* "# ": markers and whitespace with no text
HashOnly == <<"#", " ">>

LineUniverse ==
    {RowA, RowB, RowC, RowD9, RowE11, NoteLine,
     EmptyLine, SpaceLine, HeadingH, HeadingS, HashOnly}

\* the longest document, in lines
MaxLines == 3

\* every sequence of 1..n lines (split never returns an empty array)
RECURSIVE LineSeqs(_)
LineSeqs(n) ==
    IF n = 1 THEN {<<l>> : l \in LineUniverse}
    ELSE LET shorter == LineSeqs(n - 1)
         IN  shorter \cup {s \o <<l>> : s \in {t \in shorter : Len(t) = n - 1},
                                         l \in LineUniverse}

Documents == {Join(ls) : ls \in LineSeqs(MaxLines)}

\* the host's offset from UTC in minutes: UTC and New York in summer
HostOffsets == {0, -240}

-----------------------------------------------------------------------------
(* SortTimestampedListCommand *)

\* getHeadingLevel: line.match(/^(#{1,6})\s+/) ? match[1].length : 0
getHeadingLevel(line) ==
    LET level == RunLen(line, 1, {"#"})
    IN  IF level \in 1..6 /\ RunLen(line, level + 1, WhiteSpace) >= 1 THEN level ELSE 0

\* line.match(/^(#{1,6})\s+(.+)$/) of loadSectionsForFile: the number of
\* characters \s+ takes (the most that leave a non-empty rest free of line
\* terminators for .+), or 0 when the line does not match
HeadingMatch(line) ==
    LET level == RunLen(line, 1, {"#"})
        ws == RunLen(line, level + 1, WhiteSpace)
        ok == {k \in 1..ws :
                 /\ level + k < Len(line)
                 /\ \A p \in (level + k + 1)..Len(line) : line[p] \notin LineTerminators}
    IN  IF level \in 1..6 /\ ok # {}
        THEN CHOOSE k \in ok : \A j \in ok : j <= k
        ELSE 0

\* '  '.repeat(n)
RECURSIVE Indent(_)
Indent(n) == IF n <= 0 THEN <<>> ELSE <<" ", " ">> \o Indent(n - 1)

\* the option unshifted in front of the headings (its label is one token here)
EntireDocument == [heading |-> <<"Entire Document">>, line |-> -1]

\* the headings loadSectionsForFile pushes for lines i.. of ls (0-based line numbers)
RECURSIVE HeadingsFrom(_, _)
HeadingsFrom(ls, i) ==
    IF i > Len(ls) THEN <<>>
    ELSE LET line == ls[i]
             k == HeadingMatch(line)
             level == RunLen(line, 1, {"#"})
         IN  (IF k > 0
              THEN <<[heading |-> Indent(level - 1) \o SubSeq(line, level + k + 1, Len(line)),
                      line |-> i - 1]>>
              ELSE <<>>) \o HeadingsFrom(ls, i + 1)

\* loadSectionsForFile
loadSectionsForFile(content) == <<EntireDocument>> \o HeadingsFrom(Split(content), 1)

\* the loop "for (let i = startLine; i < lines.length; i++)" that looks for the
\* next heading of the same or a higher level: the endLine it leaves
RECURSIVE FindEndLine(_, _, _)
FindEndLine(ls, i, currentHeadingLevel) ==
    IF i >= Len(ls) THEN Len(ls) - 1
    ELSE LET headingLevel == getHeadingLevel(ls[i + 1])
         IN  IF headingLevel > 0 /\ headingLevel <= currentHeadingLevel
             THEN i - 1
             ELSE FindEndLine(ls, i + 1, currentHeadingLevel)

\* the section boundaries [startLine, endLine] (0-based, inclusive)
SectionStart(ls, sec) == IF sec.line # -1 THEN sec.line + 1 ELSE 0

SectionEnd(ls, sec) ==
    IF sec.line # -1
    THEN FindEndLine(ls, sec.line + 1, getHeadingLevel(ls[sec.line + 1]))
    ELSE Len(ls) - 1

\* a scan that takes only the rows parseTimestamp decodes
ScanLineStrict(st, line, i, offset) ==
    LET timestamp == parseTimestamp(line, offset)
    IN  IF timestamp # NULL
        THEN [st EXCEPT !.timestampedEntries =
                 @ \o <<[line |-> line, timestamp |-> timestamp, originalIndex |-> i]>>]
        ELSE [st EXCEPT !.nonTimestampedLines = @ \o <<line>>]

\* the body of the scanning loop for line i: the state is
\* [timestampedEntries, nonTimestampedLines]
ScanLine(st, line, i, offset) ==
    LET timestamp == parseTimestamp(line, offset)
    IN  IF timestamp # NULL \/ LooseMatches(line)
        THEN [st EXCEPT !.timestampedEntries =
                 @ \o <<[line |-> line, timestamp |-> timestamp, originalIndex |-> i]>>]
        ELSE [st EXCEPT !.nonTimestampedLines = @ \o <<line>>]

\* "for (let i = startLine; i <= endLine; i++)" over the lines of the section
RECURSIVE ScanFrom(_, _, _, _, _)
ScanFrom(st, ls, i, last, offset) ==
    IF i > last THEN st
    ELSE ScanFrom(ScanLine(st, ls[i + 1], i, offset), ls, i + 1, last, offset)

ScanSection(ls, first, last, offset) ==
    ScanFrom([timestampedEntries |-> <<>>, nonTimestampedLines |-> <<>>],
             ls, first, last, offset)

\* the clearing loop running one line too far
ClearSectionOneMore(ls, first, last) ==
    [i \in 1..Len(ls) |-> IF i - 1 >= first /\ i - 1 <= last + 1 THEN <<>> ELSE ls[i]]

\* "for (let i = startLine; i <= endLine; i++) newLines[i] = ''"
ClearSection(ls, first, last) ==
    [i \in 1..Len(ls) |-> IF i - 1 >= first /\ i - 1 <= last THEN <<>> ELSE ls[i]]

\* sortedEntries.forEach with the test "insertIndex < endLine"
RECURSIVE InsertEntriesOffByOne(_, _, _)
InsertEntriesOffByOne(st, entries, last) ==
    IF Len(entries) = 0 THEN st
    ELSE InsertEntriesOffByOne(
            IF st.insertIndex < last
            THEN [newLines |-> [st.newLines EXCEPT ![st.insertIndex + 1] = entries[1].line],
                  insertIndex |-> st.insertIndex + 1]
            ELSE st,
            Tail(entries), last)

\* sortedEntries.forEach: the state is [newLines, insertIndex]
RECURSIVE InsertEntries(_, _, _)
InsertEntries(st, entries, last) ==
    IF Len(entries) = 0 THEN st
    ELSE InsertEntries(
            IF st.insertIndex <= last
            THEN [newLines |-> [st.newLines EXCEPT ![st.insertIndex + 1] = entries[1].line],
                  insertIndex |-> st.insertIndex + 1]
            ELSE st,
            Tail(entries), last)

\* nonTimestampedLines.forEach without the test of line.trim()
RECURSIVE InsertOthersKeepBlank(_, _, _)
InsertOthersKeepBlank(st, others, last) ==
    IF Len(others) = 0 THEN st
    ELSE InsertOthersKeepBlank(
            IF st.insertIndex <= last
            THEN [newLines |-> [st.newLines EXCEPT ![st.insertIndex + 1] = others[1]],
                  insertIndex |-> st.insertIndex + 1]
            ELSE st,
            Tail(others), last)

\* nonTimestampedLines.forEach
RECURSIVE InsertOthers(_, _, _)
InsertOthers(st, others, last) ==
    IF Len(others) = 0 THEN st
    ELSE InsertOthers(
            IF st.insertIndex <= last /\ ~IsBlank(others[1])
            THEN [newLines |-> [st.newLines EXCEPT ![st.insertIndex + 1] = others[1]],
                  insertIndex |-> st.insertIndex + 1]
            ELSE st,
            Tail(others), last)

\* the trailing empty lines removed from the array instead of written
RECURSIVE FillEmptyRemoves(_, _)
FillEmptyRemoves(st, last) ==
    IF st.insertIndex > last THEN st
    ELSE FillEmptyRemoves(
            [newLines |-> SubSeq(st.newLines, 1, st.insertIndex)
                            \o SubSeq(st.newLines, st.insertIndex + 2, Len(st.newLines)),
             insertIndex |-> st.insertIndex], last - 1)

\* "while (insertIndex <= endLine) newLines[insertIndex] = ''"
RECURSIVE FillEmpty(_, _)
FillEmpty(st, last) ==
    IF st.insertIndex > last THEN st
    ELSE FillEmpty([newLines |-> [st.newLines EXCEPT ![st.insertIndex + 1] = <<>>],
                    insertIndex |-> st.insertIndex + 1], last)

\* the reconstruction of sortTimestampsInSection: newLines
Reconstruct(ls, first, last, sortedEntries, others) ==
    FillEmpty(
        InsertOthers(
            InsertEntries([newLines |-> ClearSection(ls, first, last), insertIndex |-> first],
                          sortedEntries, last),
            others, last),
        last).newLines

\* a test that never takes the early return
NothingToSortNever(timestampedEntries) == FALSE

\* "if (timestampedEntries.length === 0)"
NothingToSort(timestampedEntries) == Len(timestampedEntries) = 0

NoEntriesNotice == "No timestamped entries found in the selected section"

SortedNotice == "Sorted timestamped entries"

\* the variables of the commands that are not running
ExtractIdle == posts = <<>> /\ cursor = 0 /\ results = <<>> /\ threw = FALSE

TripIdle == tsLine = <<>> /\ tsDate = NULL /\ tsCode = <<>>

\* the two modals of the sort command, in the order execute opens them
Modals == {"note", "section"}

\* "let resolved = false" and a promise nothing has resolved
NewClosure == [resolved |-> FALSE, resolveCalls |-> <<>>]

ModalIdle ==
    /\ opened = [m \in Modals |-> FALSE]
    /\ closure = [m \in Modals |-> NewClosure]
    /\ timers = [m \in Modals |-> 0]
    /\ calls = [m \in Modals |-> [choose |-> <<>>, close |-> 0]]

SortIdle ==
    /\ file = <<>>
    /\ pc = "idle"
    /\ sections = <<>>
    /\ section = NULL
    /\ lines = <<>>
    /\ startLine = 0
    /\ endLine = -1
    /\ written = FALSE
    /\ notice = ""

\* a note of the vault, before the sort command is run on it
InitSort ==
    /\ hostOffset \in HostOffsets
    /\ file \in Documents
    /\ pc = "idle"
    /\ sections = <<>>
    /\ section = NULL
    /\ lines = <<>>
    /\ startLine = 0
    /\ endLine = -1
    /\ written = FALSE
    /\ notice = ""
    /\ ExtractIdle
    /\ TripIdle
    /\ ModalIdle

\* selectSection, first half: the options are computed from the file
LoadSections ==
    /\ pc = "idle"
    /\ sections' = loadSectionsForFile(file)
    /\ pc' = "choosing"
    /\ UNCHANGED <<hostOffset, file, section, lines, startLine, endLine, written, notice,
                   extractVars, tripVars, modalVars>>

\* SectionSelectionModal.onChooseItem: the user picks one of the options
ChooseSection ==
    /\ pc = "choosing"
    /\ \E k \in 1..Len(sections) : section' = sections[k]
    /\ pc' = "selected"
    /\ UNCHANGED <<hostOffset, file, sections, lines, startLine, endLine, written, notice,
                   extractVars, tripVars, modalVars>>

\* sortTimestampsInSection, from vault.read to vault.modify
SortTimestampsInSection ==
    /\ pc = "selected"
    /\ LET ls == Split(file)
           first == SectionStart(ls, section)
           last == SectionEnd(ls, section)
           scan == ScanSection(ls, first, last, hostOffset)
           timestampedEntries == scan.timestampedEntries
           nonTimestampedLines == scan.nonTimestampedLines
       IN  /\ lines' = ls
           /\ startLine' = first
           /\ endLine' = last
           /\ IF NothingToSort(timestampedEntries)
              THEN /\ notice' = NoEntriesNotice
                   /\ written' = FALSE
                   /\ file' = file
              ELSE /\ file' = Join(Reconstruct(ls, first, last,
                                               sortTimestampedEntries(timestampedEntries),
                                               nonTimestampedLines))
                   /\ written' = TRUE
                   /\ notice' = SortedNotice
    /\ pc' = "done"
    /\ UNCHANGED <<hostOffset, sections, section, extractVars, tripVars, modalVars>>

\* execute returns and its locals are gone; the command can be run again
SortReturns ==
    /\ pc = "done"
    /\ pc' = "idle"
    /\ sections' = <<>>
    /\ section' = NULL
    /\ lines' = <<>>
    /\ startLine' = 0
    /\ endLine' = -1
    /\ written' = FALSE
    /\ notice' = ""
    /\ UNCHANGED <<hostOffset, file, extractVars, tripVars, modalVars>>

NextSort == LoadSections \/ ChooseSection \/ SortTimestampsInSection \/ SortReturns

SpecSort == InitSort /\ [][NextSort]_vars

-----------------------------------------------------------------------------
(* RedditPostParserCommand *)

\* "Hello"
TitleHello == <<"H", "e", "l", "l", "o">>

\* "News"
TitleNews == <<"N", "e", "w", "s">>

\* "/r/t/comments/a1/hi/": matches: /r/t/comments/a1/
PermalinkFull ==
    <<"/", "r", "/", "t", "/", "c", "o", "m", "m", "e",
      "n", "t", "s", "/", "a", "1", "/", "h", "i", "/">>

\* "x/r/t/comments/b2/": matches past its first character
PermalinkPrefixed ==
    <<"x", "/", "r", "/", "t", "/", "c", "o", "m",
      "m", "e", "n", "t", "s", "/", "b", "2", "/">>

\* "/r/t/comments/a1": no slash after the id: no match
PermalinkNoSlash ==
    <<"/", "r", "/", "t", "/", "c", "o", "m",
      "m", "e", "n", "t", "s", "/", "a", "1">>

\* "/r//comments/a1/": empty subreddit: no match
PermalinkNoSub ==
    <<"/", "r", "/", "/", "c", "o", "m", "m",
      "e", "n", "t", "s", "/", "a", "1", "/">>

\* "2024-06-18T16:45:00Z"
StampJune ==
    <<"2", "0", "2", "4", "-", "0", "6", "-", "1", "8",
      "T", "1", "6", ":", "4", "5", ":", "0", "0", "Z">>

\* "2024-01-01T02:00:00Z": four hours earlier is in 2023
StampNewYear ==
    <<"2", "0", "2", "4", "-", "0", "1", "-", "0", "1",
      "T", "0", "2", ":", "0", "0", ":", "0", "0", "Z">>

\* "soon": not a date: new Date gives an Invalid Date
StampGarbage == <<"s", "o", "o", "n">>

\* "https://www.reddit.com"
RedditBase ==
    <<"h", "t", "t", "p", "s", ":", "/", "/", "w", "w", "w",
      ".", "r", "e", "d", "d", "i", "t", ".", "c", "o", "m">>

\* "/r/"
RPrefix == <<"/", "r", "/">>

\* "/comments/"
CommentsInfix == <<"/", "c", "o", "m", "m", "e", "n", "t", "s", "/">>

\* an attribute of an element: post.attr(name) is undefined when it is absent
Attr(v) == [present |-> TRUE, value |-> v]

Absent == [present |-> FALSE, value |-> <<>>]

\* !x of "string | undefined": undefined and '' are falsy
Falsy(attr) == ~attr.present \/ attr.value = <<>>

Titles == {Absent, Attr(<<>>), Attr(TitleHello), Attr(TitleNews)}

Permalinks ==
    {Absent, Attr(<<>>), Attr(PermalinkFull), Attr(PermalinkPrefixed),
     Attr(PermalinkNoSlash), Attr(PermalinkNoSub)}

Timestamps == {Absent, Attr(<<>>), Attr(StampJune), Attr(StampNewYear), Attr(StampGarbage)}

\* the element every other one differs from in one attribute
BaseElement ==
    [title |-> Attr(TitleHello), permalink |-> Attr(PermalinkFull), timestamp |-> Attr(StampJune)]

Elements ==
    {[BaseElement EXCEPT !.title = t] : t \in Titles}
        \cup {[BaseElement EXCEPT !.permalink = p] : p \in Permalinks}
        \cup {[BaseElement EXCEPT !.timestamp = c] : c \in Timestamps}

\* the most shreddit-post elements of a clipboard
MaxPosts == 3

RECURSIVE ElementSeqs(_)
ElementSeqs(n) ==
    IF n = 0 THEN {<<>>}
    ELSE LET shorter == ElementSeqs(n - 1)
         IN  shorter \cup {s \o <<e>> : s \in {t \in shorter : Len(t) = n - 1}, e \in Elements}

\* the characters [^/] matches in s
NonSlash(s) == {s[k] : k \in 1..Len(s)} \ {"/"}

\* /(\/r\/[^/]+\/comments\/[^/]+\/)/ tried at index i: the index of the last
\* character of the match, or 0.  Each [^/]+ is followed by a "/", so it takes
\* the whole run of other characters.
PermalinkMatchEnd(s, i) ==
    LET subStart == i + Len(RPrefix)
        subLen == RunLen(s, subStart, NonSlash(s))
        idStart == subStart + subLen + Len(CommentsInfix)
        idLen == RunLen(s, idStart, NonSlash(s))
    IN  IF /\ StartsAt(s, i, RPrefix)
           /\ subLen >= 1
           /\ StartsAt(s, subStart + subLen, CommentsInfix)
           /\ idLen >= 1
           /\ idStart + idLen <= Len(s)
           /\ s[idStart + idLen] = "/"
        THEN idStart + idLen
        ELSE 0

\* slug.match(...): match[1] of the leftmost match, or <<>> for null
PermalinkMatch(s) ==
    LET starts == {i \in 1..Len(s) : PermalinkMatchEnd(s, i) > 0}
    IN  IF starts = {} THEN <<>>
        ELSE LET i == CHOOSE k \in starts : \A j \in starts : k <= j
             IN  SubSeq(s, i, PermalinkMatchEnd(s, i))

AllDigits(s) == \A k \in 1..Len(s) : s[k] \in DigitChars

IsLeapYear(y) == (y % 4 = 0 /\ y % 100 # 0) \/ y % 400 = 0

DaysInMonth(y, m) ==
    IF m = 2 THEN (IF IsLeapYear(y) THEN 29 ELSE 28)
    ELSE IF m \in {4, 6, 9, 11} THEN 30 ELSE 31

\* new Date(timestampStr) for a string of the form YYYY-MM-DDTHH:mm:ssZ with
\* fields in range; any other string of the model gives an Invalid Date
DateParse(str) ==
    IF /\ Len(str) = 20
       /\ AllDigits(SubSeq(str, 1, 4)) /\ str[5] = "-"
       /\ AllDigits(SubSeq(str, 6, 7)) /\ str[8] = "-"
       /\ AllDigits(SubSeq(str, 9, 10)) /\ str[11] = "T"
       /\ AllDigits(SubSeq(str, 12, 13)) /\ str[14] = ":"
       /\ AllDigits(SubSeq(str, 15, 16)) /\ str[17] = ":"
       /\ AllDigits(SubSeq(str, 18, 19)) /\ str[20] = "Z"
    THEN LET y == ParseInt(SubSeq(str, 1, 4))
             m == ParseInt(SubSeq(str, 6, 7))
             d == ParseInt(SubSeq(str, 9, 10))
             h == ParseInt(SubSeq(str, 12, 13))
             mi == ParseInt(SubSeq(str, 15, 16))
             sec == ParseInt(SubSeq(str, 18, 19))
         IN  IF m \in 1..12 /\ d \in 1..DaysInMonth(y, m) /\ h \in 0..23
                  /\ mi \in 0..59 /\ sec \in 0..59
             THEN DateOf(DaysFromCivil(y, m, d) * MinutesPerDay + h * 60 + mi)
             ELSE InvalidDate
    ELSE InvalidDate

\* const edtOffsetMs = 4 * 60 * 60 * 1000, in minutes
edtOffset == 4 * 60

\* new Date(utcTime.getTime() - edtOffsetMs)
edtTime(utcTime) == IF utcTime.nan THEN InvalidDate ELSE DateOf(utcTime.time - edtOffset)

\* `- ${formattedTime} - [${title}](${postUrl})`
PostLine(code, title, postUrl) ==
    <<"-", " ">> \o code \o <<" ", "-", " ", "[">> \o title \o <<"]", "(">> \o postUrl \o <<")">>

\* results.push(`- ${formattedTime} - [${title}](${postUrl})`) for an element
\* that passed the tests
PushLine(st, elem, match, offset) ==
    [st EXCEPT !.results =
        @ \o <<PostLine(formattedTime(edtTime(DateParse(elem.timestamp.value)), offset),
                        elem.title.value,
                        RedditBase \o match)>>]

\* the callback of posts.each without "if (!match) return": match[1] of null
\* raises a TypeError
EachPostNoMatchTest(st, elem, offset) ==
    IF Falsy(elem.title) \/ Falsy(elem.permalink) \/ Falsy(elem.timestamp)
    THEN st
    ELSE LET match == PermalinkMatch(elem.permalink.value)
         IN  IF match = <<>>
             THEN [st EXCEPT !.threw = TRUE]
             ELSE PushLine(st, elem, match, offset)

\* the callback of posts.each: the state is [results, threw]
EachPost(st, elem, offset) ==
    IF Falsy(elem.title) \/ Falsy(elem.permalink) \/ Falsy(elem.timestamp)
    THEN st
    ELSE LET match == PermalinkMatch(elem.permalink.value)
         IN  IF match = <<>>
             THEN st
             ELSE PushLine(st, elem, match, offset)

\* the HTML of the clipboard, as the shreddit-post elements cheerio selects
InitExtract ==
    /\ hostOffset \in HostOffsets
    /\ posts \in ElementSeqs(MaxPosts)
    /\ cursor = 0
    /\ results = <<>>
    /\ threw = FALSE
    /\ SortIdle
    /\ TripIdle
    /\ ModalIdle

\* posts.each calls the callback on the next element
ExtractEach ==
    /\ cursor < Len(posts)
    /\ ~threw
    /\ LET st == EachPost([results |-> results, threw |-> threw], posts[cursor + 1],
                          hostOffset)
       IN  /\ results' = st.results
           /\ threw' = st.threw
    /\ cursor' = cursor + 1
    /\ UNCHANGED <<hostOffset, posts, sortVars, tripVars, modalVars>>

NextExtract == ExtractEach

SpecExtract == InitExtract /\ [][NextExtract]_vars

-----------------------------------------------------------------------------
(* parseTimestamp followed by the extractor's formatter *)

Years == {<<"2", "0", "2", "4">>, <<"1", "9", "9", "9">>, <<"0", "9", "9", "9">>,
          <<"0", "0", "2", "4">>}

Months == {<<"0", "0">>, <<"0", "1">>, <<"0", "2">>, <<"1", "2">>, <<"1", "3">>}

Days == {<<"0", "0">>, <<"0", "1">>, <<"2", "9">>, <<"3", "1">>}

Hours == {<<"0", "0">>, <<"2", "3">>, <<"2", "4">>}

Minutes == {<<"0", "0">>, <<"5", "9">>, <<"6", "0">>}

\* 12-digit codes, fields in and out of their calendar range
Codes == {y \o m \o d \o h \o mi : y \in Years, m \in Months, d \in Days, h \in Hours,
                                   mi \in Minutes}

\* "- <code> - x"
RowOf(code) == <<"-", " ">> \o code \o <<" ", "-", " ", "x">>

InitTrip ==
    /\ hostOffset \in HostOffsets
    /\ tsLine \in {RowOf(c) : c \in Codes}
    /\ tsDate = NULL
    /\ tsCode = <<>>
    /\ SortIdle
    /\ ExtractIdle
    /\ ModalIdle

\* TimestampParser.parseTimestamp(line)
TripParse ==
    /\ tsDate = NULL
    /\ tsDate' = parseTimestamp(tsLine, hostOffset)
    /\ UNCHANGED <<hostOffset, tsLine, tsCode, sortVars, extractVars, modalVars>>

\* the YYYYMMDDHHmm formatter applied to the parsed Date
TripFormat ==
    /\ tsDate # NULL
    /\ tsCode = <<>>
    /\ tsCode' = formattedTime(tsDate, hostOffset)
    /\ UNCHANGED <<hostOffset, tsLine, tsDate, sortVars, extractVars, modalVars>>

NextTrip == TripParse \/ TripFormat

SpecTrip == InitTrip /\ [][NextTrip]_vars

-----------------------------------------------------------------------------
(* selectNote and selectSection: a promise resolved by the modal's callbacks *)

\* the files of the vault the note modal offers
MarkdownFiles == {[path |-> <<"a.md">>], [path |-> <<"b.md">>]}

\* the options the section modal offers
SectionOptions == {EntireDocument, [heading |-> <<"H">>, line |-> 0]}

\* getItems() of a modal
Items(m) == IF m = "note" THEN MarkdownFiles ELSE SectionOptions

\* the most calls the host makes of one modal's onChooseItem
MaxChoose == 2

\* the most calls the host makes of one modal's onClose
MaxClose == 2

\* the callback without its test of the flag
onSelectNoGuard(c, item) ==
    [resolved |-> TRUE, resolveCalls |-> Append(c.resolveCalls, item)]

\* the callback given to the modal's constructor:
\* if (!resolved) { resolved = true; resolve(item); }
onSelect(c, item) ==
    IF ~c.resolved
    THEN [resolved |-> TRUE, resolveCalls |-> Append(c.resolveCalls, item)]
    ELSE c

\* the callback given to setTimeout: if (!resolved) { resolved = true; resolve(null); }
onTimeout(c) ==
    IF ~c.resolved
    THEN [resolved |-> TRUE, resolveCalls |-> Append(c.resolveCalls, NULL)]
    ELSE c

\* what "await" sees of a promise: the argument of the first call of resolve
Settled(m) == closure[m].resolveCalls # <<>>

Result(m) == Head(closure[m].resolveCalls)

InitModal ==
    /\ hostOffset \in HostOffsets
    /\ ModalIdle
    /\ SortIdle
    /\ ExtractIdle
    /\ TripIdle

\* execute calls selectNote: the closure is made and the note modal opened
SelectNote ==
    /\ ~opened["note"]
    /\ opened' = [opened EXCEPT !["note"] = TRUE]
    /\ closure' = [closure EXCEPT !["note"] = NewClosure]
    /\ UNCHANGED <<hostOffset, timers, calls, sortVars, extractVars, tripVars>>

\* execute got a file from selectNote and calls selectSection
SelectSection ==
    /\ opened["note"]
    /\ Settled("note")
    /\ Result("note") # NULL
    /\ ~opened["section"]
    /\ opened' = [opened EXCEPT !["section"] = TRUE]
    /\ closure' = [closure EXCEPT !["section"] = NewClosure]
    /\ UNCHANGED <<hostOffset, timers, calls, sortVars, extractVars, tripVars>>

\* the host calls onChooseItem(item) of modal m
OnChooseItem(m) ==
    /\ opened[m]
    /\ Len(calls[m].choose) < MaxChoose
    /\ \E item \in Items(m) :
          /\ closure' = [closure EXCEPT ![m] = onSelect(@, item)]
          /\ calls' = [calls EXCEPT ![m].choose = Append(@, item)]
    /\ UNCHANGED <<hostOffset, opened, timers, sortVars, extractVars, tripVars>>

\* the host calls onClose of modal m: the zero-delay timer is scheduled
OnClose(m) ==
    /\ opened[m]
    /\ calls[m].close < MaxClose
    /\ timers' = [timers EXCEPT ![m] = @ + 1]
    /\ calls' = [calls EXCEPT ![m].close = @ + 1]
    /\ UNCHANGED <<hostOffset, opened, closure, sortVars, extractVars, tripVars>>

\* the event loop runs a timer callback of modal m
TimerFires(m) ==
    /\ timers[m] > 0
    /\ timers' = [timers EXCEPT ![m] = @ - 1]
    /\ closure' = [closure EXCEPT ![m] = onTimeout(@)]
    /\ UNCHANGED <<hostOffset, opened, calls, sortVars, extractVars, tripVars>>

NextModal ==
    \/ SelectNote
    \/ SelectSection
    \/ \E m \in Modals : OnChooseItem(m)
    \/ \E m \in Modals : OnClose(m)
    \/ \E m \in Modals : TimerFires(m)

\* a scheduled timer callback is run by the event loop
SpecModal ==
    InitModal /\ [][NextModal]_vars /\ \A m \in Modals : WF_vars(TimerFires(m))

-----------------------------------------------------------------------------
(* Properties of the sorter, stated on the state sortTimestampsInSection      *)
(* leaves: lines is the document it read, file the text the vault holds now. *)

\* the run has ended with a call of vault.modify
Wrote == pc = "done" /\ written

\* the lines of the written text
newDocument == Split(file)

\* lines startLine..endLine of a document
RangeOf(ls) == SubSeq(ls, startLine + 1, endLine + 1)

\* what the sorter's two patterns make of a line
Classify(line) ==
    LET timestamp == parseTimestamp(line, hostOffset)
    IN  [text |-> line,
         decodable |-> timestamp # NULL,
         nullRow |-> timestamp = NULL /\ LooseMatches(line),
         instant |-> IF timestamp = NULL THEN 0 ELSE timestamp.time,
         blank |-> IsBlank(line)]

RECURSIVE ClassifyAll(_)
ClassifyAll(ls) ==
    IF Len(ls) = 0 THEN <<>> ELSE <<Classify(ls[1])>> \o ClassifyAll(Tail(ls))

\* the range as read and as written, every line classified
RangeRead == ClassifyAll(RangeOf(lines))

RangeWritten == ClassifyAll(RangeOf(newDocument))

Decodable(c) == c.decodable

NullRow(c) == c.nullRow

TimestampRow(c) == c.decodable \/ c.nullRow

Content(c) == ~TimestampRow(c) /\ ~c.blank

Occurrences(cs, l) == Cardinality({i \in 1..Len(cs) : cs[i].text = l})

\* C1: a sort never changes the number of lines of the document: the text written
\* has as many lines as the text read, and the rewritten range startLine..endLine
\* lies inside the document, so that it fills endLine - startLine + 1 slots.
C1_LineCountConserved ==
    Wrote =>
        /\ Len(newDocument) = Len(lines)
        /\ 0 <= startLine
        /\ startLine <= endLine
        /\ endLine <= Len(lines) - 1
        /\ Len(RangeOf(newDocument)) = endLine - startLine + 1

\* a section under a heading was rewritten, lines changed place and the range
\* needed padding with an empty line
C1_Witness ==
    LET before == RangeRead
        after == RangeWritten
    IN
        /\ Wrote
        /\ section.line # -1
        /\ file # Join(lines)
        /\ \E p \in 1..Len(before) : before[p].blank

\* C2: every line outside startLine..endLine, the chosen heading and the lines of
\* later sections included, has the same text in the written document as in the
\* document read.
C2_OutsideUntouched ==
    Wrote =>
        \A i \in 0..(Len(lines) - 1) :
            (i < startLine \/ i > endLine) =>
                /\ i + 1 <= Len(newDocument)
                /\ newDocument[i + 1] = lines[i + 1]

\* a section between its heading and the next heading was written
C2_Witness ==
    /\ Wrote
    /\ section.line # -1
    /\ startLine = section.line + 1
    /\ endLine < Len(lines) - 1

\* C3: the rows only the loose pattern matches (9, 10 or 11 digits) are at the
\* top of the rewritten range in their original relative order, so every one of
\* them is before every decodable row.
C3_NullFirst ==
    LET before == RangeRead
        after == RangeWritten
    IN
        Wrote =>
            LET nulls == SelectSeq(before, NullRow)
            IN  /\ Len(nulls) <= Len(after)
                /\ SubSeq(after, 1, Len(nulls)) = nulls
                /\ \A p, q \in 1..Len(after) :
                      (p < q /\ after[p].decodable) => ~after[q].nullRow

\* a decodable row stood above two different loose-only rows
C3_Witness ==
    LET before == RangeRead
        after == RangeWritten
    IN
        /\ Wrote
        /\ \E i, j, k \in 1..Len(before) :
              /\ i < j /\ j < k
              /\ before[i].decodable
              /\ before[j].nullRow /\ before[k].nullRow
              /\ before[j].text # before[k].text

\* C4: the decodable rows of the rewritten range are in descending order of
\* instant, and the rows of one instant are in the order they had before.
C4_DescendingStable ==
    LET before == RangeRead
        after == RangeWritten
    IN
        Wrote =>
            LET out == SelectSeq(after, Decodable)
                inp == SelectSeq(before, Decodable)
            IN  /\ Len(out) = Len(inp)
                /\ \A p, q \in 1..Len(out) : p < q => out[p].instant >= out[q].instant
                /\ \A r \in 1..Len(inp) :
                      LET SameInstant(c) == c.instant = inp[r].instant
                      IN  SelectSeq(out, SameInstant) = SelectSeq(inp, SameInstant)

\* a 12-digit row for midnight stood above the 8-digit row of the same date, and
\* a later row below both
C4_Witness ==
    LET before == RangeRead
        after == RangeWritten
    IN
        /\ Wrote
        /\ \E i, j, k \in 1..Len(before) :
              /\ i < j /\ j < k
              /\ before[i].text = RowC /\ before[j].text = RowA
              /\ before[i].instant = before[j].instant
              /\ before[k].decodable /\ before[k].instant > before[j].instant

AlreadySorted(cs) ==
    \A p, q \in 1..Len(cs) :
        p < q =>
            /\ TimestampRow(cs[q]) => TimestampRow(cs[p])
            /\ (cs[p].decodable /\ TimestampRow(cs[q])) =>
                   (cs[q].decodable /\ cs[p].instant >= cs[q].instant)

\* no blank line above a line that is not blank, and every blank line is empty
BlanksLastAndEmpty(cs) ==
    /\ \A p, q \in 1..Len(cs) : (p < q /\ cs[p].blank) => cs[q].blank
    /\ \A p \in 1..Len(cs) : cs[p].blank => cs[p].text = <<>>

C8_NothingToSort ==
    LET before == RangeRead
        after == RangeWritten
    IN
        (pc = "done" /\ \A p \in 1..Len(before) : ~TimestampRow(before[p]))
            => /\ ~written
               /\ notice = NoEntriesNotice
               /\ file = Join(lines)

\* the chosen heading was the last line: startLine is past the end of the document
C8_Witness ==
    /\ pc = "done"
    /\ section.line = Len(lines) - 1
    /\ startLine > endLine
    /\ ~written
    /\ notice = NoEntriesNotice

\* a line a sort has to keep: a timestamp row, or a line that is not empty or
\* whitespace-only
Kept(c) == TimestampRow(c) \/ ~c.blank

\* C14: no content is lost by a sort: the timestamp rows and the lines that are
\* not empty or whitespace-only occur in the written range with the same texts
\* and the same multiplicities as in the range read, and every other line of the
\* written range is the empty string.
C14_NoContentLost ==
    LET before == RangeRead
        after == RangeWritten
    IN  Wrote =>
            /\ \A p \in 1..Len(before) :
                  Kept(before[p]) =>
                      Occurrences(after, before[p].text) = Occurrences(before, before[p].text)
            /\ \A q \in 1..Len(after) :
                  IF Kept(after[q])
                  THEN Occurrences(before, after[q].text) = Occurrences(after, after[q].text)
                  ELSE after[q].text = <<>>

\* a range that held a whitespace-only line, an ordinary line and a timestamp
\* row below them was rewritten
C14_Witness ==
    LET before == RangeRead
        after == RangeWritten
    IN  /\ Wrote
        /\ \E p \in 1..Len(before) : before[p].blank /\ before[p].text # <<>>
        /\ \E p \in 1..Len(before) : Content(before[p])
        /\ \E p \in 1..Len(before) : TimestampRow(before[p])
        /\ TimestampRow(after[1])
        /\ ~TimestampRow(before[1])

-----------------------------------------------------------------------------
(* Properties of parseTimestamp and of the extractor *)

\* C7: for a line of the strict 12-digit grammar, formatting the Date that
\* parseTimestamp returns gives back the 12-digit code of the line.
C7_RoundTrip ==
    tsCode # <<>> => tsCode = StrictMatch(tsLine)

\* the permalink contains /r/<subreddit>/comments/<id>/
ContainsPostPath(s) ==
    \E i \in 1..Len(s) :
        /\ StartsAt(s, i, RPrefix)
        /\ \E j \in (i + Len(RPrefix) + 1)..Len(s) :
              /\ StartsAt(s, j, CommentsInfix)
              /\ \A x \in (i + Len(RPrefix))..(j - 1) : s[x] # "/"
              /\ \E k \in (j + Len(CommentsInfix) + 1)..Len(s) :
                    /\ s[k] = "/"
                    /\ \A x \in (j + Len(CommentsInfix))..(k - 1) : s[x] # "/"

\* the three attributes are present and not empty and the permalink has the path
ValidCandidate(e) ==
    /\ e.title.present /\ e.title.value # <<>>
    /\ e.permalink.present /\ e.permalink.value # <<>>
    /\ e.timestamp.present /\ e.timestamp.value # <<>>
    /\ ContainsPostPath(e.permalink.value)

\* the line of a valid candidate
LineOf(e) ==
    PostLine(formattedTime(edtTime(DateParse(e.timestamp.value)), hostOffset),
             e.title.value,
             RedditBase \o PermalinkMatch(e.permalink.value))

\* the code that is the year, month, day, hour and minute of the instant four
\* hours before the created-timestamp read as UTC
FixedOffsetCode(stamp) == formattedTime(DateOf(DateParse(stamp).time - 4 * 60), 0)

\* C9: on every host the code of an emitted line is the year, month, day, hour
\* and minute of the created-timestamp (as UTC) minus four hours.
C9_FixedOffsetOnEveryHost ==
    LET valid == SelectSeq(SubSeq(posts, 1, cursor), ValidCandidate)
    IN  \A k \in 1..Len(valid) :
            (k <= Len(results) /\ ~DateParse(valid[k].timestamp.value).nan) =>
                SubSeq(results[k], 3, 14) = FixedOffsetCode(valid[k].timestamp.value)

\* C10: the results hold one line for each candidate met so far whose three
\* attributes are present and not empty and whose permalink has the path, in the
\* order of the elements, and nothing for the others; the callback has raised no
\* exception.
C10_OneLinePerValidInOrder ==
    LET valid == SelectSeq(SubSeq(posts, 1, cursor), ValidCandidate)
    IN  /\ Len(results) = Len(valid)
        /\ \A k \in 1..Len(valid) : results[k] = LineOf(valid[k])
        /\ ~threw

\* a candidate with a permalink and no post-title stood between two valid ones
C10_Witness ==
    /\ Len(posts) = 3
    /\ cursor = 3
    /\ ValidCandidate(posts[1])
    /\ ~posts[2].title.present /\ posts[2].permalink.present
    /\ ValidCandidate(posts[3])
    /\ Len(results) = 2
    /\ results[1] # results[2]
    /\ ~threw

\* "- " + 12 decimal digits + " - [<title>](https://www.reddit.com/r/<sub>/comments/<id>/)"
HasPostLineFormat(l) ==
    /\ Len(l) > 18
    /\ SubSeq(l, 1, 2) = <<"-", " ">>
    /\ AllDigits(SubSeq(l, 3, 14))
    /\ StartsAt(l, 15, <<" ", "-", " ", "[">>)
    /\ \E j \in 20..Len(l) :
          /\ StartsAt(l, j, <<"]", "(">> \o RedditBase)
          /\ ContainsPostPath(SubSeq(l, j + 2 + Len(RedditBase), Len(l) - 1))
          /\ PermalinkMatch(SubSeq(l, j + 2 + Len(RedditBase), Len(l) - 1))
                 = SubSeq(l, j + 2 + Len(RedditBase), Len(l) - 1)
    /\ l[Len(l)] = ")"

\* C11: every line the extractor has emitted is "- ", exactly 12 decimal digits,
\* " - [<title>](https://www.reddit.com/r/<sub>/comments/<id>/)", whatever the
\* non-empty created-timestamp of its element, and so is a strict 12-digit
\* timestamp row for the sorter.
C11_PostLineFormat ==
    \A k \in 1..Len(results) :
        /\ HasPostLineFormat(results[k])
        /\ StrictMatch(results[k]) = SubSeq(results[k], 3, 14)

-----------------------------------------------------------------------------
(* Section boundaries *)

\* the level of a line under the grammar of heading discovery (1 to 6 '#', then
\* whitespace, then non-empty text), or 0 when it is not a heading
DiscoveryLevel(line) == IF HeadingMatch(line) > 0 THEN RunLen(line, 1, {"#"}) ELSE 0

\* C12: for the whole-document choice the range is [0, lastLineIndex]; for a
\* heading at line h of level L, startLine = h + 1 and endLine is the index just
\* before the first line at or after startLine that the discovery grammar makes a
\* heading of level <= L, or lastLineIndex when there is none.
C12_SectionBoundaries ==
    pc = "done" =>
        IF section.line = -1
        THEN startLine = 0 /\ endLine = Len(lines) - 1
        ELSE LET L == DiscoveryLevel(lines[section.line + 1])
                 enders == {i \in (section.line + 1)..(Len(lines) - 1) :
                              /\ DiscoveryLevel(lines[i + 1]) > 0
                              /\ DiscoveryLevel(lines[i + 1]) <= L}
             IN  /\ startLine = section.line + 1
                 /\ endLine = IF enders = {} THEN Len(lines) - 1
                              ELSE (CHOOSE i \in enders : \A j \in enders : i <= j) - 1

-----------------------------------------------------------------------------
(* Properties of selectNote and selectSection *)

\* no timer callback of modal m has run yet
NoTimerFired(m) == timers[m] = calls[m].close

\* resolve was called at most once, with an item of the modal or with null
ResolvedAtMostOnce ==
    \A m \in Modals :
        /\ Len(closure[m].resolveCalls) <= 1
        /\ closure[m].resolved <=> Settled(m)
        /\ Settled(m) => Result(m) \in Items(m) \cup {NULL}

\* a first onChooseItem that comes before any timer callback settles the
\* promise with its item, and a settled promise keeps its result
SelectionWins ==
    \A m \in Modals :
        /\ (/\ calls[m].choose = <<>>
            /\ calls'[m].choose # <<>>
            /\ NoTimerFired(m))
               => closure'[m].resolveCalls = <<calls'[m].choose[1]>>
        /\ Settled(m) => closure'[m].resolveCalls = closure[m].resolveCalls

\* once onClose has been called the promise is eventually settled
ClosedLeadsToSettled ==
    \A m \in Modals : (calls[m].close > 0) ~> Settled(m)

\* C13: in every interleaving of onChooseItem, onClose and the zero-delay timer,
\* the promise of selectNote / selectSection is resolved at most once, with the
\* selected item or with null and never both; an item chosen before the timer
\* callback runs is the result; once the modal was closed the promise is
\* eventually resolved.
C13_ResolvedOnce ==
    /\ []ResolvedAtMostOnce
    /\ [][SelectionWins]_vars
    /\ ClosedLeadsToSettled

\* the host closed the note modal and then called onChooseItem before the timer
\* ran: the file is the result and the later timer callback changed nothing;
\* the section modal was closed without a choice and resolved null
C13_Witness ==
    /\ calls["note"].close = 1
    /\ Len(calls["note"].choose) = 1
    /\ timers["note"] = 0
    /\ closure["note"].resolveCalls = <<calls["note"].choose[1]>>
    /\ opened["section"]
    /\ calls["section"].close = 1
    /\ calls["section"].choose = <<>>
    /\ closure["section"].resolveCalls = <<NULL>>

====
